---- MODULE Spec2Model ----
(***************************************************************************)
(* A model of all_media_adder.py: the catalog (json_data), the interactive *)
(* insertion add_entry with its prompts, the renderer create_markdown, and *)
(* the session loop main.                                                  *)
(* Python strings are TLA+ strings; Len, SubSeq and \o act on them as on   *)
(* sequences of characters, so the string operations of the code (strip,   *)
(* startswith, split, casefold, comparison, `in`) are computed character   *)
(* by character.                                                           *)
(***************************************************************************)
EXTENDS Integers, Sequences, FiniteSets, TLC

\* Bound of the model: add_entry is not called once the catalog holds this
\* many entries (all categories together).
MaxEntries == 3

\* Bound of the model: create_markdown is called at most this many times in
\* a row.
MaxRenders == 2

(***************************************************************************)
(* Characters and strings                                                  *)
(***************************************************************************)
Ch(s, i) == SubSeq(s, i, i)

UpperCase == "ABCDEFGHIJKLMNOPQRSTUVWXYZ"

LowerCase == "abcdefghijklmnopqrstuvwxyz"

Punctuation == "\t #(),-\\"

Characters ==
    {Ch(UpperCase, i) : i \in 1..Len(UpperCase)}
    \cup {Ch(LowerCase, i) : i \in 1..Len(LowerCase)}
    \cup {Ch(Punctuation, i) : i \in 1..Len(Punctuation)}

IndexIn(c, s) == CHOOSE i \in 1..Len(s) : Ch(s, i) = c

\* The code points of the characters: Python compares str values code point
\* by code point.
CodePoint ==
    [c \in Characters |->
        IF \E i \in 1..Len(UpperCase) : Ch(UpperCase, i) = c
        THEN 64 + IndexIn(c, UpperCase)
        ELSE IF \E i \in 1..Len(LowerCase) : Ch(LowerCase, i) = c
        THEN 96 + IndexIn(c, LowerCase)
        ELSE CASE c = "\t" -> 9
               [] c = " " -> 32
               [] c = "#" -> 35
               [] c = "(" -> 40
               [] c = ")" -> 41
               [] c = "," -> 44
               [] c = "-" -> 45
               [] c = "\\" -> 92]

Ord(c) == CodePoint[c]

\* The case folding of the characters: an upper-case letter becomes the
\* lower-case one.
CaseFolded ==
    [c \in Characters |->
        IF \E i \in 1..Len(UpperCase) : Ch(UpperCase, i) = c
        THEN Ch(LowerCase, IndexIn(c, UpperCase))
        ELSE c]

SetMin(S) == CHOOSE x \in S : \A y \in S : x <= y

SetMax(S) == CHOOSE x \in S : \A y \in S : y <= x

\* a < b on Python strings.
StrLess(a, b) ==
    LET n == IF Len(a) < Len(b) THEN Len(a) ELSE Len(b)
        diff == {i \in 1..n : Ch(a, i) # Ch(b, i)}
    IN  IF diff = {} THEN Len(a) < Len(b)
        ELSE Ord(Ch(a, SetMin(diff))) < Ord(Ch(b, SetMin(diff)))

IsSpace(c) == c \in {" ", "\t"}

\* str.strip()
strip(s) ==
    LET keep == {i \in 1..Len(s) : ~IsSpace(Ch(s, i))}
    IN  IF keep = {} THEN "" ELSE SubSeq(s, SetMin(keep), SetMax(keep))

\* str.startswith(p)
startswith(s, p) == Len(s) >= Len(p) /\ SubSeq(s, 1, Len(p)) = p

\* p in s
contains(s, p) == \E i \in 0..(Len(s) - Len(p)) : SubSeq(s, i + 1, i + Len(p)) = p

RECURSIVE casefold(_)
\* str.casefold()
casefold(s) ==
    IF Len(s) = 0 THEN ""
    ELSE CaseFolded[Ch(s, 1)] \o casefold(SubSeq(s, 2, Len(s)))

\* s.split(' ', 1) of a string that holds a space: <<article, rest>>.
split_once(s) ==
    LET i == SetMin({j \in 1..Len(s) : Ch(s, j) = " "})
    IN  <<SubSeq(s, 1, i - 1), SubSeq(s, i + 1, Len(s))>>

\* Faulty variant: the articles are matched without their space.
has_article_no_space(t) == startswith(t, "The") \/ startswith(t, "A") \/ startswith(t, "An")

\* title.startswith(('The ', 'A ', 'An '))
has_article(t) == startswith(t, "The ") \/ startswith(t, "A ") \/ startswith(t, "An ")

\* article, rest = title.split(' ', 1); f'{rest}, {article}'.  (split gives
\* two parts only when the string holds a space, as it does after
\* has_article.)
article_last(t) ==
    IF \E j \in 1..Len(t) : Ch(t, j) = " "
    THEN split_once(t)[2] \o ", " \o split_once(t)[1]
    ELSE t

(***************************************************************************)
(* Sequences                                                               *)
(***************************************************************************)
Range(s) == {s[i] : i \in 1..Len(s)}

\* A sequence written as a function, as a tuple: its elements are evaluated
\* once.
as_list(f) == SubSeq(f, 1, Len(f))

\* The p-th smallest element of a set of integers.
NthSmallest(S, p) == CHOOSE x \in S : Cardinality({y \in S : y < x}) = p - 1

\* The elements of s in order of first appearance (the key order of a dict
\* filled from s).
first_appearance(s) ==
    LET firsts == {i \in 1..Len(s) : \A j \in 1..(i - 1) : s[j] # s[i]}
    IN  as_list([p \in 1..Cardinality(firsts) |-> s[NthSmallest(firsts, p)]])

\* The positions 1..n in sorted order: position i is preceded by those with a
\* smaller key and by the earlier ones with an equal key (before[i] is that
\* set), which is the order of a stable ascending sort.
sorted_positions(before) ==
    LET n == Len(before)
        count == as_list([i \in 1..n |-> Cardinality(before[i])])
    IN  as_list([p \in 1..n |-> CHOOSE i \in 1..n : count[i] = p - 1])

\* list.sort / sorted with integer keys: stable, ascending.  keys[i] is the
\* key of s[i].
sort_by_int(s, keys) ==
    LET n == Len(s)
        k == as_list(keys)
        order == sorted_positions([i \in 1..n |->
                    {j \in 1..n : k[j] < k[i] \/ (k[j] = k[i] /\ j < i)}])
    IN  as_list([p \in 1..n |-> s[order[p]]])

\* sorted with str keys: stable, ascending.
sort_by_str(s, keys) ==
    LET n == Len(s)
        k == as_list(keys)
        order == sorted_positions([i \in 1..n |->
                    {j \in 1..n : StrLess(k[j], k[i]) \/ (k[j] = k[i] /\ j < i)}])
    IN  as_list([p \in 1..n |-> s[order[p]]])

RECURSIVE flatten(_)
flatten(ss) == IF Len(ss) = 0 THEN <<>> ELSE Head(ss) \o flatten(Tail(ss))

\* s with x inserted so that it becomes element i + 1 (list.insert(i, x)).
list_insert(s, i, x) ==
    LET k == IF i > Len(s) THEN Len(s) ELSE i
    IN  SubSeq(s, 1, k) \o <<x>> \o SubSeq(s, k + 1, Len(s))

(***************************************************************************)
(* The catalog                                                             *)
(***************************************************************************)
\* list(json_data.keys()): the categories, in mapping order.
categories == <<"Books", "Games">>

\* title_override None is the empty string here: add_entry stores None or a
\* non-empty string, and create_markdown reads the field through `or`, which
\* treats None and '' alike.
None == ""

MediaEntry(title, series, series_sort, title_override) ==
    [title |-> title, series |-> series, series_sort |-> series_sort,
     title_override |-> title_override]

\* What the user may type or pass.
TitleInputs == {"  ", " a ", "Ba", "The a"}

\* The override typed after a title: none, or for one of the titles a text.
OverrideInputs(title_text) == IF title_text = "Ba" THEN {"", " An x"} ELSE {""}

SeriesInputs == {"", "A"}

SeriesArgs == {"", "a"}

VARIABLES
    json_data,     \* the catalog: category -> sequence of entries
    pc,            \* where add_entry waits: "idle" or the pending question
    local,         \* add_entry's parameters and locals
    result,        \* outcome of the last finished call
    json_before,   \* the catalog when the running or last call started
    last_render,   \* the text written by create_markdown, if no add_entry
                   \* call has started since; NoText otherwise
    main           \* main: where it waits, its loop variables category and
                   \* series, the content of all_media_raw.json, and how often
                   \* it has rendered and saved

vars == <<json_data, pc, local, result, json_before, last_render, main>>

NoText == <<"(not rendered)">>

NoEntry == MediaEntry("", "", 0, None)

NoLocal ==
    [category |-> "", series |-> "", include_title_override |-> FALSE,
     answer_category |-> "", answer_title |-> "",
     answer_title_override |-> "", title |-> "", title_override |-> None,
     refused_title |-> "", series_from |-> "", possible_franchises |-> {}]

\* How the last call ended: by which statement (its line in the source), and
\* what it returned.  renders counts the create_markdown calls since the last
\* add_entry call.
Outcome(kind, line, category, entry, renders) ==
    [kind |-> kind, line |-> line, category |-> category, entry |-> entry,
     renders |-> renders]

\* main with raw_file on disk: not called, or at the given place; line is
\* the source line of the return by which it ended.
Main(at, category, series, raw_file, renders, saves) ==
    [pc |-> at, category |-> category, series |-> series,
     raw_file |-> raw_file, renders |-> renders, saves |-> saves, line |-> 0]

TotalEntries(jd) ==
    Cardinality(UNION {{<<c, i>> : i \in 1..Len(jd[c])} : c \in DOMAIN jd})

Init ==
    /\ json_data = [c \in Range(categories) |-> <<>>]
    /\ pc = "idle"
    /\ local = NoLocal
    /\ result = Outcome("none", 0, "", NoEntry, 0)
    /\ json_before = json_data
    /\ last_render = NoText
    /\ main = Main("not called", "", "", json_data, 0, 0)

(***************************************************************************)
(* add_entry and handle_series: the computations                           *)
(***************************************************************************)
\* Faulty variant: the duplicate check is left out.
already_exists_never(existing_category, title) == FALSE

\* Faulty variant: only the first entry of the category is compared.
already_exists_first_only(existing_category, title) ==
    Len(existing_category) > 0 /\ existing_category[1].title = title

\* Faulty variant: the text is not stripped before it is measured.
validate_unstripped(text) == Len(text) > 0

\* validate=lambda _, s: len(s.strip()) > 0
validate(text) == Len(strip(text)) > 0

\* any(entry['title'] == title for entry in existing_category)
already_exists(existing_category, title) ==
    \E i \in 1..Len(existing_category) : existing_category[i].title = title

existing_franchises(category_entries) ==
    {category_entries[i].series : i \in 1..Len(category_entries)}

\* Faulty variant: only '(' ends the prefix.
franchise_prefix_paren_only(series_name) ==
    LET stops == {i \in 1..Len(series_name) : Ch(series_name, i) = "("}
    IN  IF stops = {} THEN series_name
        ELSE SubSeq(series_name, 1, SetMin(stops) - 1)

\* re.match(r'^([^\\(]+)', series_name).group(0): the leading run of
\* characters that are neither a backslash nor '('.  The empty string stands
\* for "no match" (the pattern needs one character at least).
franchise_prefix(series_name) ==
    LET stops == {i \in 1..Len(series_name) : Ch(series_name, i) \in {"\\", "("}}
    IN  IF stops = {} THEN series_name
        ELSE SubSeq(series_name, 1, SetMin(stops) - 1)

\* The candidates offered by handle_series.  The code lists them in the
\* iteration order of a set; the user picks one by value, so only the set
\* matters.
possible_franchises(title, category_entries) ==
    {series_name \in existing_franchises(category_entries) :
        /\ franchise_prefix(series_name) # ""
        /\ contains(title, franchise_prefix(series_name))}

\* Faulty variant: the members are not filtered by series.
existing_series_unfiltered(existing_category, series) ==
    LET members == as_list([i \in 1..Len(existing_category) |-> i])
    IN  sort_by_int(members,
            [k \in 1..Len(members) |-> existing_category[members[k]].series_sort])

\* The members of a series, sorted by series_sort, as indices into
\* existing_category (an index is the identity of an entry object).
existing_series(existing_category, series) ==
    LET members == SelectSeq(as_list([i \in 1..Len(existing_category) |-> i]),
                             LAMBDA i : existing_category[i].series = series)
    IN  sort_by_int(members,
            [k \in 1..Len(members) |-> existing_category[members[k]].series_sort])

\* {entry['title']: entry for entry in existing_series}: a later entry with
\* the same title replaces an earlier one.
title_to_entry_map(existing_category, members) ==
    [t \in {existing_category[members[k]].title : k \in 1..Len(members)} |->
        members[SetMax({k \in 1..Len(members) : existing_category[members[k]].title = t})]]

\* list(title_to_entry_map.keys())
series_titles(existing_category, members) ==
    first_appearance([k \in 1..Len(members) |-> existing_category[members[k]].title])

options(existing_category, members) ==
    <<"At the start", "At the end">> \o series_titles(existing_category, members)

\* Faulty variant: 'At the start' puts the title after the first member.
placed_titles_start_off_by_one(titles, title, placement) ==
    IF placement = "At the start" THEN list_insert(titles, 1, title)
    ELSE IF placement = "At the end" THEN Append(titles, title)
    ELSE LET placement_index == SetMin({k \in 1..Len(titles) : titles[k] = placement}) - 1
         IN  list_insert(titles, placement_index + 1, title)

\* series_titles after the insertion of the new title.
placed_titles(titles, title, placement) ==
    IF placement = "At the start" THEN list_insert(titles, 0, title)
    ELSE IF placement = "At the end" THEN Append(titles, title)
    ELSE LET placement_index == SetMin({k \in 1..Len(titles) : titles[k] = placement}) - 1
         IN  list_insert(titles, placement_index + 1, title)

\* Faulty variant: the existing members keep their series_sort.
renumbered_not(existing_category, map, titles) == existing_category

\* The loop over enumerate(series_titles): the entries of the category after
\* it.  A title of the map gets its (zero-based) position as series_sort.
renumbered(existing_category, map, titles) ==
    as_list([i \in 1..Len(existing_category) |->
        LET hits == {k \in 1..Len(titles) :
                        titles[k] \in DOMAIN map /\ map[titles[k]] = i}
        IN  IF hits = {} THEN existing_category[i]
            ELSE [existing_category[i] EXCEPT !.series_sort = SetMax(hits) - 1]])

\* Faulty variant: the new entry always gets the last position.
new_series_sort_last(map, titles) == Len(titles) - 1

\* The same loop: series_sort of the new entry, the position of the title
\* the map does not know.
new_series_sort(map, titles) ==
    LET misses == {k \in 1..Len(titles) : titles[k] \notin DOMAIN map}
    IN  IF misses = {} THEN 0 ELSE SetMax(misses) - 1

(***************************************************************************)
(* add_entry: the steps between two prompts                                *)
(***************************************************************************)
\* The call ends: by return or by raise UserCancel.
finish(kind, line, category, entry, jd) ==
    /\ json_data' = jd
    /\ pc' = "idle"
    /\ local' = NoLocal
    /\ result' = Outcome(kind, line, category, entry, 0)
    /\ UNCHANGED <<json_before, last_render, main>>

wait_at(question, loc) ==
    /\ pc' = question
    /\ local' = loc
    /\ UNCHANGED <<json_data, result, json_before, last_render, main>>

\* new_entry = MediaEntry(...); json_data[category].append(new_entry); return
append_entry(loc, series, series_sort, jd) ==
    LET new_entry == MediaEntry(loc.title, series, series_sort, loc.title_override)
    IN  finish("added", 117, loc.category, new_entry,
               [jd EXCEPT ![loc.category] = Append(@, new_entry)])

\* Faulty variant: the entry is appended before the placement question is asked.
place_in_series_append_first(loc, series) ==
    IF series # "" /\ Len(existing_series(json_data[loc.category], series)) > 0
    THEN /\ pc' = "placement"
         /\ local' = [loc EXCEPT !.series = series]
         /\ json_data' = [json_data EXCEPT ![loc.category] =
                Append(@, MediaEntry(loc.title, series, 0, loc.title_override))]
         /\ UNCHANGED <<result, json_before, last_render, main>>
    ELSE append_entry(loc, series, 0, json_data)

\* From `series_sort = 0` to the placement prompt, or to the end when the
\* series has no member yet.
place_in_series(loc, series) ==
    IF series # "" /\ Len(existing_series(json_data[loc.category], series)) > 0
    THEN wait_at("placement", [loc EXCEPT !.series = series])
    ELSE append_entry(loc, series, 0, json_data)

\* The answer to the placement question, and the rest of add_entry.
placed(loc, placement) ==
    LET existing_category == json_data[loc.category]
        members == existing_series(existing_category, loc.series)
        map == title_to_entry_map(existing_category, members)
        titles == placed_titles(series_titles(existing_category, members),
                                loc.title, placement)
    IN  append_entry(loc, loc.series, new_series_sort(map, titles),
            [json_data EXCEPT ![loc.category] = renumbered(existing_category, map, titles)])

\* After the first prompt: the answers, the duplicate check, and the start
\* of handle_series when no series was passed.
after_first_prompt(answered) ==
    LET category == IF answered.category # "" THEN answered.category
                    ELSE strip(answered.answer_category)
        title == strip(answered.answer_title)
        loc == [answered EXCEPT !.category = category,
                                !.title = title,
                                !.title_override = strip(answered.answer_title_override),
                                !.answer_category = "",
                                !.answer_title = "",
                                !.answer_title_override = ""]
    IN  IF already_exists(json_data[category], title)
        THEN finish("Already exists", 67, "", NoEntry, json_data)
        ELSE IF loc.series = ""
        THEN LET candidates == possible_franchises(title, json_data[category])
             IN  IF candidates # {}
                 THEN wait_at("series", [loc EXCEPT !.possible_franchises = candidates])
                 ELSE wait_at("series_text", loc)
        ELSE place_in_series(loc, loc.series)


(***************************************************************************)
(* create_markdown                                                         *)
(***************************************************************************)
\* Faulty variant: a group holds only the last entry of its series.
series_groups_last_only(entries) ==
    LET names == first_appearance([i \in 1..Len(entries) |-> entries[i].series])
    IN  as_list([g \in 1..Len(names) |->
            <<entries[SetMax({i \in 1..Len(entries) : entries[i].series = names[g]})]>>])

\* series_groups.values(): the entries of a category grouped by series, the
\* groups in order of first appearance, each in the order of the category.
series_groups(entries) ==
    LET names == first_appearance([i \in 1..Len(entries) |-> entries[i].series])
    IN  as_list([g \in 1..Len(names) |->
                    SelectSeq(entries, LAMBDA entry : entry.series = names[g])])

\* group.sort(key=lambda d: d['series_sort']): the group after the key
\* function has run on it.
sorted_group(group) ==
    sort_by_int(group, [i \in 1..Len(group) |-> group[i].series_sort])

\* Faulty variant: the key is not case-folded.
title_to_sort_by_no_casefold(group) ==
    LET first == sorted_group(group)[1]
        title == IF first.series # "" THEN first.series ELSE first.title
    IN  IF has_article(title) THEN article_last(title) ELSE title

\* Faulty variant: the key is taken from the title_override of the first
\* entry of the group when it has one.
title_to_sort_by_override(group) ==
    LET first == sorted_group(group)[1]
        title == IF first.title_override # None THEN first.title_override
                 ELSE IF first.series # "" THEN first.series ELSE first.title
    IN  casefold(IF has_article(title) THEN article_last(title) ELSE title)

\* What title_to_sort_by returns.
title_to_sort_by(group) ==
    LET first == sorted_group(group)[1]
        title == IF first.series # "" THEN first.series ELSE first.title
    IN  casefold(IF has_article(title) THEN article_last(title) ELSE title)

\* sorted(series_groups.values(), key=title_to_sort_by): the key function
\* has sorted every group in place before the groups are ordered.
sorted_series(entries) ==
    LET groups == series_groups(entries)
        sorted == sort_by_str(groups,
                      [g \in 1..Len(groups) |-> title_to_sort_by(groups[g])])
    IN  as_list([g \in 1..Len(sorted) |-> sorted_group(sorted[g])])

\* The title of one bullet.
title_to_use(entry) ==
    LET title == IF entry.title_override # None THEN entry.title_override
                 ELSE entry.title
    IN  IF has_article(title) THEN article_last(title) ELSE title

\* category_titles[category], for a category with entries.
category_titles(entries) ==
    LET in_order == flatten(sorted_series(entries))
    IN  as_list([i \in 1..Len(in_order) |-> title_to_use(in_order[i])])

\* Faulty variant: every category of the catalog is a key.
titled_categories_all(jd) == categories

\* The keys of category_titles: a defaultdict gets a key at the first append.
titled_categories(jd) == SelectSeq(categories, LAMBDA c : Len(jd[c]) > 0)

\* The lines written to export_path.
markdown(jd) ==
    LET keys == titled_categories(jd)
        section(c) ==
            LET title_list == category_titles(jd[c])
            IN  <<"## " \o c>>
                \o [i \in 1..Len(title_list) |-> "- " \o title_list[i]]
                \o <<"">>
    IN  <<"# All Media", "">> \o flatten([k \in 1..Len(keys) |-> section(keys[k])])

\* Faulty variant: the sorted groups are written back to the category.
json_data_written_back(jd) ==
    [c \in DOMAIN jd |-> flatten(sorted_series(jd[c]))]

\* Faulty variant: the sort by series_sort acts on the category's own list.
json_data_sorted_in_place(jd) ==
    [c \in DOMAIN jd |->
        sort_by_int(jd[c], [i \in 1..Len(jd[c]) |-> jd[c][i].series_sort])]

\* json_data after create_markdown: the one in-place operation, group.sort,
\* acts on the lists of series_groups, which are new lists; the sequences
\* and the entries of json_data are only read.
json_data_after_create_markdown(jd) == jd

(***************************************************************************)
(* Actions                                                                 *)
(***************************************************************************)
\* add_entry(json_data, category, series, include_title_override) is called.
CallAddEntry ==
    \E category \in {""} \cup Range(categories), series \in SeriesArgs,
       include_title_override \in BOOLEAN :
        /\ pc = "idle"
        /\ TotalEntries(json_data) < MaxEntries
        /\ pc' = IF category = "" THEN "category" ELSE "title"
        /\ local' = [NoLocal EXCEPT !.category = category, !.series = series,
                        !.include_title_override = include_title_override]
        /\ result' = Outcome("running", 0, "", NoEntry, 0)
        /\ json_before' = json_data
        /\ last_render' = NoText
        /\ UNCHANGED <<json_data, main>>

AnswerCategory ==
    \E choice \in Range(categories) :
        /\ pc = "category"
        /\ wait_at("title", [local EXCEPT !.answer_category = choice])

\* The Title question keeps asking until validate accepts the text;
\* refused_title remembers the last text it refused, until it accepts one.
AnswerTitle ==
    \E text \in TitleInputs :
        /\ pc = "title"
        /\ IF validate(text)
           THEN LET answered == [local EXCEPT !.answer_title = text,
                                             !.refused_title = ""]
                IN  IF local.include_title_override
                    THEN wait_at("title_override", answered)
                    ELSE after_first_prompt(answered)
           ELSE wait_at("title", [local EXCEPT !.refused_title = text])

AnswerTitleOverride ==
    \E text \in OverrideInputs(local.answer_title) :
        /\ pc = "title_override"
        /\ after_first_prompt([local EXCEPT !.answer_title_override = text])

\* inquirer.prompt returns None at any question of the first prompt.
CancelFirstPrompt ==
    /\ pc \in {"category", "title", "title_override"}
    /\ finish("UserCancel", 55, "", NoEntry, json_data)

\* series_from remembers which answer of handle_series gave the series.
AnswerSeries ==
    /\ pc = "series"
    /\ \E choice \in local.possible_franchises \cup {"NONE", "CUSTOM"} :
           IF choice = "NONE"
           THEN place_in_series([local EXCEPT !.series_from = "NONE"], local.title)
           ELSE IF choice = "CUSTOM"
           THEN wait_at("series_text", [local EXCEPT !.series_from = "CUSTOM"])
           ELSE place_in_series([local EXCEPT !.series_from = "candidate"], choice)

CancelSeries ==
    /\ pc = "series"
    /\ finish("UserCancel", 141, "", NoEntry, json_data)

AnswerSeriesText ==
    \E text \in SeriesInputs :
        /\ pc = "series_text"
        /\ IF text # ""
           THEN place_in_series([local EXCEPT !.series_from = "text"], text)
           ELSE place_in_series([local EXCEPT !.series_from = "empty text"], local.title)

CancelSeriesText ==
    /\ pc = "series_text"
    /\ finish("UserCancel", 156, "", NoEntry, json_data)

AnswerPlacement ==
    /\ pc = "placement"
    /\ \E placement \in Range(options(json_data[local.category],
                existing_series(json_data[local.category], local.series))) :
            placed(local, placement)

CancelPlacement ==
    /\ pc = "placement"
    /\ finish("UserCancel", 92, "", NoEntry, json_data)

\* create_markdown(json_data) is called.
CreateMarkdown ==
    /\ pc = "idle"
    /\ result.renders < MaxRenders
    /\ last_render' = markdown(json_data)
    /\ json_data' = json_data_after_create_markdown(json_data)
    /\ json_before' = json_data
    /\ result' = Outcome("rendered", 197, "", NoEntry, result.renders + 1)
    /\ UNCHANGED <<pc, local, main>>

Next ==
    \/ CreateMarkdown
    \/ CallAddEntry
    \/ AnswerCategory
    \/ AnswerTitle
    \/ AnswerTitleOverride
    \/ CancelFirstPrompt
    \/ AnswerSeries
    \/ CancelSeries
    \/ AnswerSeriesText
    \/ CancelSeriesText
    \/ AnswerPlacement
    \/ CancelPlacement

Spec == Init /\ [][Next]_vars

(***************************************************************************)
(* A second specification: create_markdown on a catalog loaded with one    *)
(* entry, whose display title is any short text over a few characters or   *)
(* one of some longer titles.                                              *)
(***************************************************************************)
MaxTitleLen == 4

TitleCharacters == {"T", "h", "e", "A", "n", " ", "x"}

RECURSIVE TextsUpTo(_)
TextsUpTo(n) ==
    IF n = 0 THEN {""}
    ELSE LET shorter == TextsUpTo(n - 1)
         IN  shorter \cup {t \o c : t \in shorter, c \in TitleCharacters}

LongTitles ==
    {"The Great Escape", "A Study in Scarlet", "An Education", "Breaking Bad",
     "The x", "The The x", "x The y", "A An x", "An  x", "the x", "Another x"}

DisplayTitles == TextsUpTo(MaxTitleLen) \cup LongTitles

InitTitles ==
    /\ \E t \in DisplayTitles, overridden \in BOOLEAN :
        json_data = [c \in Range(categories) |->
            IF c # categories[1] THEN <<>>
            ELSE IF overridden THEN <<MediaEntry("x", "x", 0, t)>>
            ELSE <<MediaEntry(t, "x", 0, None)>>]
    /\ pc = "idle"
    /\ local = NoLocal
    /\ result = Outcome("none", 0, "", NoEntry, 0)
    /\ json_before = json_data
    /\ last_render = NoText
    /\ main = Main("not called", "", "", json_data, 0, 0)

NextTitles == CreateMarkdown

SpecTitles == InitTitles /\ [][NextTitles]_vars

(***************************************************************************)
(* A third specification: main has loaded all_media_raw.json, which holds  *)
(* one series in the first category.  The file is written by hand as well  *)
(* as by the program: the titles of its entries include the texts of the   *)
(* two fixed placement options, and its series_sort values are any numbers *)
(* up to the number of entries.                                            *)
(***************************************************************************)
MaxLoaded == 2

LoadedTitles == {"At the start", "At the end", "Ba"}

LoadedSeries == "a"

RECURSIVE LoadedLists(_)
LoadedLists(n) ==
    IF n = 0 THEN {<<>>}
    ELSE {Append(entries, MediaEntry(title, LoadedSeries, series_sort, None)) :
            entries \in LoadedLists(n - 1),
            title \in LoadedTitles,
            series_sort \in 0..MaxLoaded}

LoadedCatalogs ==
    {[c \in Range(categories) |-> IF c = categories[1] THEN entries ELSE <<>>] :
        entries \in {l \in UNION {LoadedLists(n) : n \in 1..MaxLoaded} :
                        \A i, j \in 1..Len(l) : l[i].title = l[j].title => i = j}}

InitLoaded ==
    /\ json_data \in LoadedCatalogs
    /\ pc = "idle"
    /\ local = NoLocal
    /\ result = Outcome("none", 0, "", NoEntry, 0)
    /\ json_before = json_data
    /\ last_render = NoText
    /\ main = Main("not called", "", "", json_data, 0, 0)

SpecLoaded == InitLoaded /\ [][Next]_vars

(***************************************************************************)
(* main                                                                    *)
(***************************************************************************)
\* main calls add_entry(json_data=existing_json, category=category,
\* series=series), which asks its first question.
main_calls_add_entry(category, series) ==
    /\ pc' = IF category = "" THEN "category" ELSE "title"
    /\ local' = [NoLocal EXCEPT !.category = category, !.series = series]
    /\ result' = Outcome("running", 0, "", NoEntry, 0)
    /\ json_before' = json_data
    /\ last_render' = NoText
    /\ UNCHANGED json_data

\* main has read all_media_raw.json and calls add_entry for the first time.
Start ==
    /\ main.pc = "start"
    /\ pc = "idle"
    /\ main_calls_add_entry("", "")
    /\ main' = [main EXCEPT !.pc = "add_entry"]

\* The answers typed at input('Continue? (Y/n): ') and at
\* input('Save unsaved work? (Y/n): ').
YesNoInputs == {"", "y", "n", "N"}

\* main returns without a word: from the loop or from the except clause.
main_returns(line) ==
    /\ main' = [main EXCEPT !.pc = "returned", !.line = line]
    /\ UNCHANGED <<json_data, pc, local, result, json_before, last_render>>

\* create_markdown(existing_json, export_path), json.dump(existing_json, f),
\* print('Saved!'), and the end of main.
main_saves ==
    /\ last_render' = markdown(json_data)
    /\ json_data' = json_data_after_create_markdown(json_data)
    /\ main' = [main EXCEPT !.pc = "returned", !.line = 252,
                            !.raw_file = json_data',
                            !.renders = @ + 1, !.saves = @ + 1]
    /\ UNCHANGED <<pc, local, result, json_before>>

\* The next turn of the loop, with the loop variables as given.
main_continues(category, series) ==
    /\ TotalEntries(json_data) < MaxEntries
    /\ main_calls_add_entry(category, series)
    /\ main' = [main EXCEPT !.category = category, !.series = series]

AddEntryReturned(kind) ==
    main.pc = "add_entry" /\ pc = "idle" /\ result.kind = kind

\* add_entry returned None: 'Continue? (Y/n): '.
AnswerContinue ==
    \E res \in YesNoInputs :
        /\ AddEntryReturned("Already exists")
        /\ IF casefold(res) = "n" THEN main_returns(214)
           ELSE main_continues(main.category, main.series)

\* add_entry returned an entry: 'Done! Add another?'.
AnswerSelection ==
    \E selection \in {"From the start", "Same category", "Same series", "Exit"} :
        /\ AddEntryReturned("added")
        /\ IF selection = "From the start" THEN main_continues("", "")
           ELSE IF selection = "Same category" THEN main_continues(result.category, "")
           ELSE IF selection = "Same series"
           THEN main_continues(result.category, result.entry.series)
           ELSE main_saves

\* inquirer.prompt returns None at 'Done! Add another?': raise UserCancel,
\* caught by main, which asks 'Save unsaved work? (Y/n): '.
CancelSelection ==
    /\ AddEntryReturned("added")
    /\ main' = [main EXCEPT !.pc = "except UserCancel"]
    /\ UNCHANGED <<json_data, pc, local, result, json_before, last_render>>

\* add_entry raised UserCancel, caught by main.
UserCancelCaught ==
    /\ AddEntryReturned("UserCancel")
    /\ main' = [main EXCEPT !.pc = "except UserCancel"]
    /\ UNCHANGED <<json_data, pc, local, result, json_before, last_render>>

\* The answer to 'Save unsaved work? (Y/n): '.
AnswerSave ==
    \E res \in YesNoInputs :
        /\ main.pc = "except UserCancel"
        /\ IF casefold(res) = "n" THEN main_returns(247) ELSE main_saves

(***************************************************************************)
(* A fifth specification: a session of main on an empty catalog.           *)
(***************************************************************************)
InitMain ==
    /\ json_data = [c \in Range(categories) |-> <<>>]
    /\ pc = "idle"
    /\ local = NoLocal
    /\ result = Outcome("none", 0, "", NoEntry, 0)
    /\ json_before = json_data
    /\ last_render = NoText
    /\ main = Main("start", "", "", json_data, 0, 0)

NextMain ==
    \/ Start
    \/ AnswerCategory
    \/ AnswerTitle
    \/ CancelFirstPrompt
    \/ AnswerSeries
    \/ CancelSeries
    \/ AnswerSeriesText
    \/ CancelSeriesText
    \/ AnswerPlacement
    \/ CancelPlacement
    \/ AnswerContinue
    \/ AnswerSelection
    \/ CancelSelection
    \/ UserCancelCaught
    \/ AnswerSave

SpecMain == InitMain /\ [][NextMain]_vars

(***************************************************************************)
(* A fourth specification: main has loaded a catalog whose first category  *)
(* holds one series, of one or two entries, named by any short text over   *)
(* a letter, a capital, '(' and the backslash; one add_entry call is made. *)
(***************************************************************************)
MaxSeriesLen == 3

SeriesCharacters == {"a", "B", "(", "\\"}

RECURSIVE SeriesNamesUpTo(_)
SeriesNamesUpTo(n) ==
    IF n = 0 THEN {""}
    ELSE LET shorter == SeriesNamesUpTo(n - 1)
         IN  shorter \cup {t \o c : t \in shorter, c \in SeriesCharacters}

SeriesNames == SeriesNamesUpTo(MaxSeriesLen) \ {""}

InitFranchise ==
    /\ \E series_name \in SeriesNames, two \in BOOLEAN :
        json_data = [c \in Range(categories) |->
            IF c # categories[1] THEN <<>>
            ELSE IF two THEN <<MediaEntry("x", series_name, 0, None),
                               MediaEntry("y", series_name, 1, None)>>
            ELSE <<MediaEntry("x", series_name, 0, None)>>]
    /\ pc = "idle"
    /\ local = NoLocal
    /\ result = Outcome("none", 0, "", NoEntry, 0)
    /\ json_before = json_data
    /\ last_render = NoText
    /\ main = Main("start", "", "", json_data, 0, 0)

NextFranchise ==
    \/ Start
    \/ AnswerCategory
    \/ AnswerTitle
    \/ CancelFirstPrompt
    \/ AnswerSeries
    \/ CancelSeries
    \/ AnswerSeriesText
    \/ CancelSeriesText
    \/ AnswerPlacement
    \/ CancelPlacement

SpecFranchise == InitFranchise /\ [][NextFranchise]_vars

(***************************************************************************)
(* Properties                                                              *)
(***************************************************************************)
SeriesOf(entries) == {entries[i].series : i \in 1..Len(entries)}

MembersOf(entries, series) == {i \in 1..Len(entries) : entries[i].series = series}

Added == result.kind = "added"

Rendered == result.kind = "rendered"

\* The lines of a rendered text under the subheading of category c.
BulletsOf(text, c) ==
    LET h == SetMin({i \in 1..Len(text) : text[i] = "## " \o c})
        end == SetMin({i \in (h + 1)..Len(text) : text[i] = ""})
    IN  SubSeq(text, h + 1, end - 1)

\* The article rule as the specification words it: one of the three leading
\* articles, with its space, goes behind the rest.
Displayed(t) ==
    IF startswith(t, "The ") THEN SubSeq(t, 5, Len(t)) \o ", The"
    ELSE IF startswith(t, "A ") THEN SubSeq(t, 3, Len(t)) \o ", A"
    ELSE IF startswith(t, "An ") THEN SubSeq(t, 4, Len(t)) \o ", An"
    ELSE t

\* C1: in every category the series_sort values of the members of each
\* series are exactly 0..k-1, k the number of members, with no duplicate.
C1_DenseRanks ==
    \A c \in DOMAIN json_data : \A series \in SeriesOf(json_data[c]) :
        LET members == MembersOf(json_data[c], series)
        IN  /\ {json_data[c][i].series_sort : i \in members}
                    = 0..(Cardinality(members) - 1)
            /\ \A i, j \in members :
                    json_data[c][i].series_sort = json_data[c][j].series_sort => i = j

\* A series of two or more members beside another series of the category,
\* the last insertion not at the end of its series.
C1_Witness ==
    /\ Added
    /\ \E c \in DOMAIN json_data :
        /\ c = result.category
        /\ Cardinality(SeriesOf(json_data[c])) >= 2
        /\ Cardinality(MembersOf(json_data[c], result.entry.series)) >= 2
        /\ result.entry.series_sort = 0

\* C2: while add_entry waits at a prompt, and after it has raised
\* UserCancel, the catalog is the one the call started with.
C2_CancelLeavesCatalog ==
    (pc # "idle" \/ result.kind = "UserCancel") => json_data = json_before

\* UserCancel raised at the placement prompt, with a catalog of two entries.
C2_Witness ==
    /\ result.kind = "UserCancel"
    /\ result.line = 92
    /\ TotalEntries(json_data) >= 2

\* C3: a title equal to the title of an entry of the category ends the call
\* with "Already exists", which returns nothing and leaves the catalog as it
\* was; no call gets past the check with such a title.
C3_DuplicateIsNoOp ==
    /\ result.kind = "Already exists" =>
            /\ json_data = json_before
            /\ result.entry = NoEntry
    /\ pc \in {"series", "series_text", "placement"} =>
            \A i \in 1..Len(json_data[local.category]) :
                json_data[local.category][i].title # local.title
    /\ Added =>
            \A i \in 1..Len(json_before[result.category]) :
                json_before[result.category][i].title # result.entry.title

C3_Witness ==
    /\ result.kind = "Already exists"
    /\ \E c \in DOMAIN json_data : Len(json_data[c]) >= 2

\* C4: no two entries of a category have the same title.
C4_UniqueTitles ==
    \A c \in DOMAIN json_data : \A i, j \in 1..Len(json_data[c]) :
        json_data[c][i].title = json_data[c][j].title => i = j

\* Two entries in one category, and a title that is in both categories.
C4_Witness ==
    /\ \E c \in DOMAIN json_data : Len(json_data[c]) >= 2
    /\ \E c, d \in DOMAIN json_data :
        /\ c # d
        /\ \E i \in 1..Len(json_data[c]), j \in 1..Len(json_data[d]) :
                json_data[c][i].title = json_data[d][j].title

\* C5: the answer 'At the start' gives the new entry series_sort 0 and
\* raises the series_sort of every member of the series by one.
C5_AtTheStart ==
    [][(pc = "placement" /\ placed(local, "At the start")) =>
        LET old == json_data[local.category]
            new == json_data'[local.category]
        IN  /\ Len(new) = Len(old) + 1
            /\ new[Len(new)].series = local.series
            /\ new[Len(new)].series_sort = 0
            /\ \A i \in 1..Len(old) :
                    old[i].series = local.series =>
                        new[i].series_sort = old[i].series_sort + 1]_vars

\* The new entry is first in a series of three.
C5_Witness ==
    /\ Added
    /\ result.entry.series_sort = 0
    /\ Cardinality(MembersOf(json_data[result.category], result.entry.series)) = 3

\* C6: a successful add_entry appends the returned entry to its category and
\* changes nothing else but the series_sort of entries of that category and
\* series.
C6_Frame ==
    Added =>
        LET c == result.category
            old == json_before[c]
            new == json_data[c]
        IN  /\ \A d \in DOMAIN json_data : d # c => json_data[d] = json_before[d]
            /\ Len(new) = Len(old) + 1
            /\ new[Len(new)] = result.entry
            /\ \A i \in 1..Len(old) :
                /\ new[i].title = old[i].title
                /\ new[i].series = old[i].series
                /\ new[i].title_override = old[i].title_override
                /\ old[i].series # result.entry.series =>
                        new[i].series_sort = old[i].series_sort

\* An insertion that renumbered a member, with an entry in the other
\* category.
C6_Witness ==
    /\ Added
    /\ \E d \in DOMAIN json_data : d # result.category /\ Len(json_data[d]) > 0
    /\ \E i \in 1..Len(json_before[result.category]) :
            json_data[result.category][i] # json_before[result.category][i]

C9_ArticleMoved ==
    Rendered =>
        \A c \in DOMAIN json_data : Len(json_data[c]) = 1 =>
            LET entry == json_data[c][1]
                t == IF entry.title_override # None THEN entry.title_override
                     ELSE entry.title
            IN  BulletsOf(last_render, c) = <<"- " \o Displayed(t)>>

\* A title with two leading articles, rendered.
C9_Witness ==
    /\ Rendered
    /\ json_data[categories[1]][1].title = "The The x"
    /\ BulletsOf(last_render, categories[1]) = <<"- The x, The">>

\* Entry i of a category comes before entry j in the output: by the key of
\* its series; for series with the same key by the first appearance of the
\* series; within a series by series_sort.
ComesBefore(entries, i, j) ==
    LET ki == casefold(Displayed(entries[i].series))
        kj == casefold(Displayed(entries[j].series))
        first(x) == SetMin(MembersOf(entries, entries[x].series))
    IN  \/ StrLess(ki, kj)
        \/ ki = kj /\ first(i) < first(j)
        \/ /\ entries[i].series = entries[j].series
           /\ \/ entries[i].series_sort < entries[j].series_sort
              \/ entries[i].series_sort = entries[j].series_sort /\ i < j

\* C10: the bullets of a category without title_override are its entries
\* ordered by case-folded, article-normalized series name, then series_sort;
\* series with equal keys in the order of their first appearance.
C10_RenderOrder ==
    Rendered =>
        \A c \in DOMAIN json_data :
            (/\ Len(json_data[c]) > 0
             /\ \A i \in 1..Len(json_data[c]) : json_data[c][i].title_override = None)
            => LET entries == json_data[c]
                   n == Len(entries)
                   at(p) == CHOOSE i \in 1..n :
                        Cardinality({j \in 1..n : ComesBefore(entries, j, i)}) = p - 1
               IN  BulletsOf(last_render, c)
                        = [p \in 1..n |-> "- " \o Displayed(entries[at(p)].title)]

\* A rendered category of three entries without override whose output order
\* is not its raw order, with two series of equal key.
C10_Witness ==
    /\ Rendered
    /\ \E c \in DOMAIN json_data :
        /\ Len(json_data[c]) = 3
        /\ \A i \in 1..3 : json_data[c][i].title_override = None
        /\ BulletsOf(last_render, c)
                # [p \in 1..3 |-> "- " \o Displayed(json_data[c][p].title)]
        /\ \E i, j \in 1..3 :
            /\ json_data[c][i].series # json_data[c][j].series
            /\ casefold(Displayed(json_data[c][i].series))
                    = casefold(Displayed(json_data[c][j].series))

\* C11 as stated: a title that is empty after trimming is refused before any
\* other input of the insertion is consumed, with the catalog unchanged, and
\* no entry has an empty title.
C11_RefusedBeforeAnyInput ==
    /\ (pc = "title" /\ strip(local.refused_title) = "" /\ local.refused_title # "") =>
            /\ local.answer_category = ""
            /\ local.answer_title_override = ""
            /\ json_data = json_before
    /\ \A c \in DOMAIN json_data : \A i \in 1..Len(json_data[c]) :
            json_data[c][i].title # ""

\* C11: a title that is empty after trimming is refused, and the title
\* question asked again, before the title override, the series and the
\* placement are consumed (the category, when it was asked, has been chosen
\* before), with the catalog unchanged; no entry has an empty title.
C11_EmptyTitleRefused ==
    /\ (local.refused_title # "") =>
            /\ pc = "title"
            /\ strip(local.refused_title) = ""
            /\ local.answer_title = ""
            /\ local.answer_title_override = ""
            /\ local.title = ""
            /\ local.series \in SeriesArgs
            /\ local.category = "" => local.answer_category \in Range(categories)
            /\ json_data = json_before
    /\ \A c \in DOMAIN json_data : \A i \in 1..Len(json_data[c]) :
            /\ json_data[c][i].title # ""
            /\ json_data[c][i].title = strip(json_data[c][i].title)

\* A blank title has been refused after the category was chosen, in a
\* catalog that has entries.
C11_Witness ==
    /\ pc = "title"
    /\ local.refused_title = "  "
    /\ local.answer_category # ""
    /\ TotalEntries(json_data) >= 1

\* C12: in a series whose ranks are 0..k-1, the placement option that names
\* a member m, whatever the title of m, gives the new entry the series_sort
\* of m plus one, and 'At the end' gives it k.
C12_AfterNamedMember ==
    [][pc = "placement" =>
        LET old == json_data[local.category]
            new == json_data'[local.category]
            members == MembersOf(old, local.series)
            k == Cardinality(members)
        IN  {old[m].series_sort : m \in members} = 0..(k - 1) =>
                /\ \A m \in members :
                        placed(local, old[m].title) =>
                            new[Len(new)].series_sort = old[m].series_sort + 1
                /\ placed(local, "At the end") =>
                        new[Len(new)].series_sort = k]_vars

\* The index at which the answer to the placement question puts the new
\* title into the list of the members' titles.
InsertionIndex(titles, placement) ==
    IF placement = "At the start" THEN 0
    ELSE IF placement = "At the end" THEN Len(titles)
    ELSE SetMin({k \in 1..Len(titles) : titles[k] = placement})

\* The simpler variant: the members of the series at or after p move up by
\* one, and the new entry, with series_sort p, is appended.
IncrementFrom(entries, new_entry, p) ==
    Append([i \in 1..Len(entries) |->
                IF entries[i].series = new_entry.series /\ entries[i].series_sort >= p
                THEN [entries[i] EXCEPT !.series_sort = @ + 1]
                ELSE entries[i]],
           [new_entry EXCEPT !.series_sort = p])

\* C13: in a series whose ranks are 0..k-1, for every placement, the
\* category after add_entry is the one the simpler variant gives: the new
\* entry has the insertion index p, exactly the members with series_sort >= p
\* have moved up by one, and the members keep their relative order.
C13_SameAsIncrement ==
    [][pc = "placement" =>
        LET old == json_data[local.category]
            new == json_data'[local.category]
            members == MembersOf(old, local.series)
            titles == series_titles(old, existing_series(old, local.series))
        IN  {old[m].series_sort : m \in members} = 0..(Cardinality(members) - 1) =>
                \A placement \in Range(options(old, existing_series(old, local.series))) :
                    placed(local, placement) =>
                        /\ new = IncrementFrom(old,
                                    MediaEntry(local.title, local.series, 0, local.title_override),
                                    InsertionIndex(titles, placement))
                        /\ \A i, j \in members :
                                old[i].series_sort < old[j].series_sort
                                    => new[i].series_sort < new[j].series_sort]_vars

\* The new entry went between the two members of its series, the second of
\* which moved up, in a category that has another series.
C13_Witness ==
    /\ Added
    /\ result.entry.series_sort = 1
    /\ LET old == json_before[result.category]
           new == json_data[result.category]
           members == MembersOf(old, result.entry.series)
       IN  /\ Cardinality(members) = 2
           /\ \E i, j \in members :
                /\ new[i].series_sort = 0 /\ old[i].series_sort = 0
                /\ new[j].series_sort = 2 /\ old[j].series_sort = 1

\* C14: add_entry appends nothing to a series whose members do not have
\* exactly the series_sort values 0..k-1, each once: a call that has
\* resolved such a series leaves the catalog as it was.
C14_CorruptSeriesRefused ==
    Added =>
        LET old == json_before[result.category]
            members == MembersOf(old, result.entry.series)
        IN  /\ {old[i].series_sort : i \in members} = 0..(Cardinality(members) - 1)
            /\ \A i, j \in members :
                    old[i].series_sort = old[j].series_sort => i = j

\* The step that ends a call whose series handle_series has set to the
\* title: by the answer NONE or by an empty free text.
OwnTitleAsSeries ==
    /\ result'.kind = "added"
    /\ \/ pc = "placement" /\ local.series_from \in {"NONE", "empty text"}
       \/ pc = "series" /\ place_in_series(local, local.title)
       \/ pc = "series_text" /\ place_in_series(local, local.title)

\* C15: after the answer NONE or an empty free text the new entry has its
\* title as series, is the only member of that series in its category, has
\* series_sort 0, and no other entry's series_sort has changed.
C15_OwnTitleIsSingleton ==
    [][OwnTitleAsSeries =>
        LET old == json_data[result'.category]
            new == json_data'[result'.category]
            new_entry == result'.entry
        IN  /\ new_entry.series = new_entry.title
            /\ new_entry.series_sort = 0
            /\ MembersOf(new, new_entry.series) = {Len(new)}
            /\ \A i \in 1..Len(old) : new[i].series_sort = old[i].series_sort]_vars

\* The franchise prefix as C16 words it: the name up to the first backslash
\* that is followed by '(', the whole name when there is none.
PrefixBeforeEscapedParen(series_name) ==
    LET marks == {i \in 1..(Len(series_name) - 1) :
                    Ch(series_name, i) = "\\" /\ Ch(series_name, i + 1) = "("}
    IN  IF marks = {} THEN series_name
        ELSE SubSeq(series_name, 1, SetMin(marks) - 1)

\* The longest prefix of a name that holds neither a backslash nor '('.
PrefixFreeOfBoth(series_name) ==
    LET clean(n) == \A i \in 1..n : Ch(series_name, i) \notin {"\\", "("}
    IN  SubSeq(series_name, 1, SetMax({n \in 0..Len(series_name) : clean(n)}))

\* The first prompt has been answered and handle_series has run up to its
\* first question: the Series list when there are candidates, else the
\* free text.
SeriesListOffered == pc = "series"

NoSeriesListOffered == pc = "series_text" /\ local.series_from # "CUSTOM"

\* C16 as stated: the candidates are the series names of the category whose
\* prefix before the first backslash followed by '(' is in the new title.
C16_CandidatesByEscapedParen ==
    LET claimed == {series_name \in SeriesOf(json_data[local.category]) :
                        contains(local.title, PrefixBeforeEscapedParen(series_name))}
    IN  /\ SeriesListOffered => local.possible_franchises = claimed
        /\ NoSeriesListOffered => claimed = {}

\* C16: the candidates are the series names of the category whose longest
\* prefix without backslash and without '(' is not empty and is in the new
\* title.
C16_Candidates ==
    LET amended == {series_name \in SeriesOf(json_data[local.category]) :
                        /\ PrefixFreeOfBoth(series_name) # ""
                        /\ contains(local.title, PrefixFreeOfBoth(series_name))}
    IN  /\ SeriesListOffered => local.possible_franchises = amended
        /\ NoSeriesListOffered => amended = {}

\* A series whose name has a '(' with no backslash before it is offered for
\* a title that holds the name only up to the '('.
C16_Witness ==
    /\ SeriesListOffered
    /\ local.title = "Ba"
    /\ local.possible_franchises = {"a(B"}

\* The member of the series of entry i that is first by series_sort.
FirstOfSeries(entries, i) ==
    LET members == MembersOf(entries, entries[i].series)
        lowest == SetMin({entries[m].series_sort : m \in members})
    IN  SetMin({m \in members : entries[m].series_sort = lowest})

\* The bullets of a category whose groups are ordered by the given keys
\* (keys[i] is the key of the group of entry i), groups with the same key by
\* first appearance, and the members of a group by series_sort.
BulletsByKeys(entries, keys) ==
    LET n == Len(entries)
        first(x) == SetMin(MembersOf(entries, entries[x].series))
        before(i, j) ==
            \/ StrLess(keys[i], keys[j])
            \/ keys[i] = keys[j] /\ first(i) < first(j)
            \/ /\ entries[i].series = entries[j].series
               /\ \/ entries[i].series_sort < entries[j].series_sort
                  \/ entries[i].series_sort = entries[j].series_sort /\ i < j
        at(p) == CHOOSE i \in 1..n :
                    Cardinality({j \in 1..n : before(j, i)}) = p - 1
    IN  [p \in 1..n |->
            "- " \o Displayed(IF entries[at(p)].title_override # None
                              THEN entries[at(p)].title_override
                              ELSE entries[at(p)].title)]

\* The keys as C17 states them: the title_override of the member with
\* series_sort 0 when it has one, else the series name.
KeysByOverride(entries) ==
    as_list([i \in 1..Len(entries) |->
        LET first == entries[FirstOfSeries(entries, i)]
        IN  casefold(Displayed(IF first.title_override # None
                               THEN first.title_override ELSE first.series))])

\* The keys by series name alone (by the title of the first member when the
\* series name is empty).
KeysBySeries(entries) ==
    as_list([i \in 1..Len(entries) |->
        LET first == entries[FirstOfSeries(entries, i)]
        IN  casefold(Displayed(IF first.series # "" THEN first.series
                               ELSE first.title))])

\* C17 as stated: the groups of a rendered category are in the order of the
\* case-folded, article-normalized title_override of their member with
\* series_sort 0, or of the series name when that member has no override.
C17_KeyFromOverride ==
    Rendered =>
        \A c \in DOMAIN json_data : Len(json_data[c]) > 0 =>
            BulletsOf(last_render, c)
                = BulletsByKeys(json_data[c], KeysByOverride(json_data[c]))

\* C17: the groups of a rendered category are in the order of their
\* case-folded, article-normalized series names, whether or not a member
\* has a title_override.
C17_KeyFromSeries ==
    Rendered =>
        \A c \in DOMAIN json_data : Len(json_data[c]) > 0 =>
            BulletsOf(last_render, c)
                = BulletsByKeys(json_data[c], KeysBySeries(json_data[c]))

\* A rendered category of two groups, which the title_override of a member
\* with series_sort 0 would put in the other order.
C17_Witness ==
    /\ Rendered
    /\ \E c \in DOMAIN json_data :
        /\ Cardinality(SeriesOf(json_data[c])) >= 2
        /\ \E i \in 1..Len(json_data[c]) :
                json_data[c][i].series_sort = 0 /\ json_data[c][i].title_override # None
        /\ BulletsByKeys(json_data[c], KeysByOverride(json_data[c]))
                # BulletsByKeys(json_data[c], KeysBySeries(json_data[c]))

\* A text is the top heading and its blank line followed, for each of the
\* given categories in order, by the subheading, one bullet for each entry
\* of the category, and a blank line.
HasSections(text, jd, cats) ==
    /\ Len(text) >= 2
    /\ text[1] = "# All Media"
    /\ text[2] = ""
    /\ SelectSeq(text, LAMBDA line : startswith(line, "## "))
            = [k \in 1..Len(cats) |-> "## " \o cats[k]]
    /\ Len(text) = 2 + 2 * Len(cats) + Len(flatten([k \in 1..Len(cats) |-> jd[cats[k]]]))
    /\ \A k \in 1..Len(cats) :
            LET bullets == BulletsOf(text, cats[k])
            IN  /\ Len(bullets) = Len(jd[cats[k]])
                /\ \A i \in 1..Len(bullets) : startswith(bullets[i], "- ")

\* C18 as stated: the rendered text has a section for every category of the
\* catalog, in the order of the mapping, whether or not it has entries.
C18_SectionPerCategory ==
    Rendered => HasSections(last_render, json_data, categories)

\* C18: the rendered text has a section for every category of the catalog
\* that has entries, in the order of the mapping, and none for a category
\* without entries.
C18_SectionPerTitledCategory ==
    Rendered =>
        HasSections(last_render, json_data,
                    SelectSeq(categories, LAMBDA c : json_data[c] # <<>>))

\* Rendered with entries in the second category and none in the first.
C18_Witness ==
    /\ Rendered
    /\ json_data[categories[1]] = <<>>
    /\ Len(json_data[categories[2]]) >= 2
    /\ last_render[3] = "## " \o categories[2]

\* C19: when main has ended, by any return but the one after the answer 'n'
\* to 'Save unsaved work?', it has rendered once and saved once, and the
\* file holds the catalog with every entry added in the session.
C19_EverySessionSaves ==
    (main.pc = "returned" /\ main.line # 247) =>
        /\ main.renders = 1
        /\ main.saves = 1
        /\ main.raw_file = json_data

\* The bullet of an entry: its title_override when it has one, else its
\* title, with the article rule applied.
BulletFor(entry) ==
    "- " \o Displayed(IF entry.title_override # None THEN entry.title_override
                      ELSE entry.title)

\* C20: under the subheading of a category with entries there are as many
\* bullets as entries, and every bullet text stands there as often as there
\* are entries it is the bullet of: no entry is dropped, none written twice.
C20_OneBulletPerEntry ==
    Rendered =>
        \A c \in DOMAIN json_data : Len(json_data[c]) > 0 =>
            LET entries == json_data[c]
                bullets == BulletsOf(last_render, c)
            IN  /\ Len(bullets) = Len(entries)
                /\ \A b \in Range(bullets) \cup {BulletFor(entries[i]) : i \in 1..Len(entries)} :
                        Cardinality({k \in 1..Len(bullets) : bullets[k] = b})
                            = Cardinality({i \in 1..Len(entries) : BulletFor(entries[i]) = b})

\* A rendered category of three entries, two of them in one series and one
\* with a title_override.
C20_Witness ==
    /\ Rendered
    /\ \E c \in DOMAIN json_data :
        /\ Len(json_data[c]) = 3
        /\ Cardinality(SeriesOf(json_data[c])) = 2
        /\ \E i \in 1..3 : json_data[c][i].title_override # None

====
